---- MODULE Spec2Model ----
(***************************************************************************)
(* Event verification core of calendar-agent:                              *)
(*   EventSourcesService      (backend/src/services/event-sources.service) *)
(*   EventVerificationService (backend/src/demo-ical-parser.ts:118-416)    *)
(*                                                                         *)
(* Texts are sequences of one-character strings, the empty sequence        *)
(* standing for an absent (undefined or empty, both falsy) text.  Instants *)
(* are minutes since an epoch.  JavaScript numbers are IEEE-754 doubles:   *)
(* a non-negative double v is held as the natural number v * 2^FracBits,   *)
(* written in limbs of LimbBits bits, least significant limb first, and    *)
(* every arithmetic operation rounds its exact result to 53 significant    *)
(* bits, ties to even, as the hardware does.                               *)
(***************************************************************************)
EXTENDS Integers, Sequences, FiniteSets, TLC

(***************************************************************************)
(* Natural numbers of arbitrary size, in limbs                             *)
(***************************************************************************)
LimbBits == 14

RECURSIVE Pow2(_)
Pow2(n) == IF n = 0 THEN 1 ELSE 2 * Pow2(n - 1)

Base == Pow2(LimbBits)

RECURSIVE BNorm(_)
BNorm(a) ==
  IF a = <<>> THEN <<>>
  ELSE IF a[Len(a)] = 0 THEN BNorm(SubSeq(a, 1, Len(a) - 1)) ELSE a

RECURSIVE BFromNat(_)
BFromNat(n) == IF n = 0 THEN <<>> ELSE <<n % Base>> \o BFromNat(n \div Base)

RECURSIVE BToNat(_)
BToNat(a) == IF a = <<>> THEN 0 ELSE a[1] + Base * BToNat(Tail(a))

Limb(a, i) == IF i <= Len(a) THEN a[i] ELSE 0

RECURSIVE BAddC(_, _, _, _)
BAddC(a, b, i, carry) ==
  IF i > Len(a) /\ i > Len(b)
  THEN IF carry = 0 THEN <<>> ELSE <<carry>>
  ELSE LET s == Limb(a, i) + Limb(b, i) + carry
       IN  <<s % Base>> \o BAddC(a, b, i + 1, s \div Base)

BAdd(a, b) == BNorm(BAddC(a, b, 1, 0))

\* a - b for a >= b
RECURSIVE BSubC(_, _, _, _)
BSubC(a, b, i, borrow) ==
  IF i > Len(a) THEN <<>>
  ELSE LET d == Limb(a, i) - Limb(b, i) - borrow
       IN  IF d < 0 THEN <<d + Base>> \o BSubC(a, b, i + 1, 1)
                    ELSE <<d>> \o BSubC(a, b, i + 1, 0)

BSub(a, b) == BNorm(BSubC(a, b, 1, 0))

\* -1, 0, 1 as a < b, a = b, a > b (both normalised)
RECURSIVE BCmpAt(_, _, _)
BCmpAt(a, b, i) ==
  IF i = 0 THEN 0
  ELSE IF a[i] < b[i] THEN -1
  ELSE IF a[i] > b[i] THEN 1
  ELSE BCmpAt(a, b, i - 1)

BCmp(a, b) ==
  IF Len(a) < Len(b) THEN -1
  ELSE IF Len(a) > Len(b) THEN 1
  ELSE BCmpAt(a, b, Len(a))

\* a * k for a natural k < 2^16
RECURSIVE BMulSmallC(_, _, _, _)
BMulSmallC(a, k, i, carry) ==
  IF i > Len(a)
  THEN IF carry = 0 THEN <<>> ELSE BFromNat(carry)
  ELSE LET p == a[i] * k + carry
       IN  <<p % Base>> \o BMulSmallC(a, k, i + 1, p \div Base)

BMulSmall(a, k) == BNorm(BMulSmallC(a, k, 1, 0))

Zeros(n) == [i \in 1..n |-> 0]

RECURSIVE BMulAt(_, _, _)
BMulAt(a, b, i) ==
  IF i > Len(b) THEN <<>>
  ELSE BAdd(BNorm(Zeros(i - 1) \o BMulSmall(a, b[i])), BMulAt(a, b, i + 1))

BMul(a, b) == BMulAt(a, b, 1)

\* <<quotient, remainder>> of a by a natural 0 < k < 2^17
RECURSIVE BDivSmallAt(_, _, _, _)
BDivSmallAt(a, k, i, rem) ==
  IF i = 0 THEN <<<<>>, rem>>
  ELSE LET cur  == rem * Base + a[i]
           rest == BDivSmallAt(a, k, i - 1, cur % k)
       IN  <<rest[1] \o <<cur \div k>>, rest[2]>>

BDivSmall(a, k) ==
  LET r == BDivSmallAt(a, k, Len(a), 0)
  IN  <<BNorm(r[1]), r[2]>>

RECURSIVE BitLenNat(_)
BitLenNat(n) == IF n = 0 THEN 0 ELSE 1 + BitLenNat(n \div 2)

BitLen(a) == IF a = <<>> THEN 0 ELSE LimbBits * (Len(a) - 1) + BitLenNat(a[Len(a)])

BShl(a, n) ==
  IF a = <<>> THEN <<>>
  ELSE BNorm(Zeros(n \div LimbBits) \o BMulSmall(a, Pow2(n % LimbBits)))

BShr(a, n) ==
  LET q == n \div LimbBits
      r == n % LimbBits
      m == Len(a) - q
  IN  IF m <= 0 THEN <<>>
      ELSE BNorm([i \in 1..m |->
             (a[q + i] \div Pow2(r)) + (Limb(a, q + i + 1) % Pow2(r)) * Pow2(LimbBits - r)])

\* bit i (from 0) of a
BBit(a, i) == (Limb(a, i \div LimbBits + 1) \div Pow2(i % LimbBits)) % 2

\* some of the n lowest bits of a is set
BLowBits(a, n) ==
  \/ \E i \in 1..(n \div LimbBits) : Limb(a, i) # 0
  \/ Limb(a, n \div LimbBits + 1) % Pow2(n % LimbBits) # 0

(***************************************************************************)
(* IEEE-754 double precision, non-negative values                          *)
(***************************************************************************)
MantissaBits == 53
FracBits == 70
GuardBits == 60

\* a rounded to MantissaBits significant bits, ties to even; sticky tells that
\* the exact value lies strictly above a
Round53(a, sticky) ==
  LET len == BitLen(a)
      s   == len - MantissaBits
  IN  IF s <= 0 THEN a
      ELSE LET q     == BShr(a, s)
               guard == BBit(a, s - 1) = 1
               low   == sticky \/ BLowBits(a, s - 1)
               odd   == BBit(q, 0) = 1
               up    == guard /\ (low \/ odd)
           IN  BShl(IF up THEN BAdd(q, <<1>>) ELSE q, s)

FromInt(n) == BShl(BFromNat(n), FracBits)

FAdd(x, y) == Round53(BAdd(x, y), FALSE)

\* x - y for x >= y
FSub(x, y) == Round53(BSub(x, y), FALSE)

FAbsDiff(x, y) == IF BCmp(x, y) >= 0 THEN FSub(x, y) ELSE FSub(y, x)

FMul(x, y) == BShr(Round53(BMul(x, y), FALSE), FracBits)

\* x / k for an integer 0 < k < 2^17
FDivInt(x, k) ==
  LET qr == BDivSmall(BShl(x, GuardBits), k)
  IN  BShr(Round53(qr[1], qr[2] # 0), GuardBits)

\* the double nearest to the decimal n / d, as a literal or parseFloat gives it
Dec(n, d) == FDivInt(FromInt(n), d)

FLeq(x, y) == BCmp(x, y) <= 0
FGeq(x, y) == BCmp(x, y) >= 0
FLt(x, y) == BCmp(x, y) < 0

\* Math.round: the integer nearest to x, ties upwards
MathRound(x) == BToNat(BShr(BAdd(x, BShl(<<1>>, FracBits - 1)), FracBits))

(***************************************************************************)
(* Texts                                                                   *)
(***************************************************************************)
Upper == <<"A","B","C","D","E","F","G","H","I","J","K","L","M",
           "N","O","P","Q","R","S","T","U","V","W","X","Y","Z">>
Lower == <<"a","b","c","d","e","f","g","h","i","j","k","l","m",
           "n","o","p","q","r","s","t","u","v","w","x","y","z">>
Digits == <<"0","1","2","3","4","5","6","7","8","9">>

IsSpace(c) == c = " "
IsDigit(c) == \E i \in 1..10 : Digits[i] = c
DigitVal(c) == (CHOOSE i \in 1..10 : Digits[i] = c) - 1

LowerChar(c) ==
  IF \E i \in 1..26 : Upper[i] = c
  THEN Lower[CHOOSE i \in 1..26 : Upper[i] = c]
  ELSE c

\* String.prototype.toLowerCase
toLowerCase(s) == [i \in 1..Len(s) |-> LowerChar(s[i])]

\* String.prototype.replace(/\s+/g, '')
StripSpaces(s) == SelectSeq(s, LAMBDA c : ~IsSpace(c))

\* String.prototype.trim
RECURSIVE trim(_)
trim(s) ==
  IF s = <<>> THEN <<>>
  ELSE IF IsSpace(s[1]) THEN trim(Tail(s))
  ELSE IF IsSpace(s[Len(s)]) THEN trim(SubSeq(s, 1, Len(s) - 1))
  ELSE s

\* String.prototype.includes
includes(s, part) ==
  \E i \in 0..(Len(s) - Len(part)) : SubSeq(s, i + 1, i + Len(part)) = part

\* Number to decimal text, for naturals
RECURSIVE NatToText(_)
NatToText(n) ==
  IF n < 10 THEN <<Digits[n + 1]>>
  ELSE NatToText(n \div 10) \o <<Digits[(n % 10) + 1]>>

(***************************************************************************)
(* string-similarity: compareTwoStrings (Dice coefficient on bigrams)      *)
(***************************************************************************)
Bigram(s, i) == <<s[i], s[i + 1]>>

\* the Map of the bigrams of first to their counts
FirstBigrams(first) ==
  [b \in {Bigram(first, i) : i \in 1..(Len(first) - 1)} |->
     Cardinality({i \in 1..(Len(first) - 1) : Bigram(first, i) = b})]

RECURSIVE IntersectionSize(_, _, _)
IntersectionSize(second, i, bigrams) ==
  IF i > Len(second) - 1 THEN 0
  ELSE LET b     == Bigram(second, i)
           count == IF b \in DOMAIN bigrams THEN bigrams[b] ELSE 0
       IN  IF count > 0
           THEN 1 + IntersectionSize(second, i + 1, [bigrams EXCEPT ![b] = count - 1])
           ELSE IntersectionSize(second, i + 1, bigrams)

compareTwoStrings(a, b) ==
  LET first  == StripSpaces(a)
      second == StripSpaces(b)
  IN  IF first = second THEN FromInt(1)
      ELSE IF Len(first) < 2 \/ Len(second) < 2 THEN FromInt(0)
      ELSE FDivInt(FromInt(2 * IntersectionSize(second, 1, FirstBigrams(first))),
                   Len(first) + Len(second) - 2)

(***************************************************************************)
(* Dates (date-fns) and prices                                             *)
(***************************************************************************)
MinutesInHour == 60
InvalidDate == -1
NaN == <<>>

\* differenceInHours(later, earlier): the difference truncated towards zero,
\* NaN when either date is invalid; a number n is <<n>>
differenceInHours(later, earlier) ==
  IF later = InvalidDate \/ earlier = InvalidDate THEN NaN
  ELSE LET diff == later - earlier
       IN  IF diff >= 0 THEN <<diff \div MinutesInHour>>
                        ELSE <<-((-diff) \div MinutesInHour)>>

MathAbs(x) == IF x = NaN THEN NaN ELSE IF x[1] < 0 THEN <<-x[1]>> ELSE x

\* Date.prototype.toISOString throws a RangeError on an invalid date
toISOStringThrows(date) == date = InvalidDate

RECURSIVE DigitsEnd(_, _)
DigitsEnd(s, i) == IF i < Len(s) /\ IsDigit(s[i + 1]) THEN DigitsEnd(s, i + 1) ELSE i

RECURSIVE DigitsValue(_, _, _)
DigitsValue(s, from, to) ==
  IF from > to THEN 0 ELSE DigitsValue(s, from, to - 1) * 10 + DigitVal(s[to])

\* extractPrice: parseFloat of the first match of /\d+(?:\.\d{1,2})?/, or null
\* (<<>>); a price p is <<p>>
extractPrice(priceStr) ==
  LET starts == {i \in 1..Len(priceStr) : IsDigit(priceStr[i])}
  IN  IF starts = {} THEN <<>>
      ELSE LET from  == CHOOSE i \in starts : \A j \in starts : i <= j
               to    == DigitsEnd(priceStr, from)
               whole == DigitsValue(priceStr, from, to)
               frac  == IF to + 2 <= Len(priceStr) /\ priceStr[to + 1] = "."
                           /\ IsDigit(priceStr[to + 2])
                        THEN IF to + 3 <= Len(priceStr) /\ IsDigit(priceStr[to + 3])
                             THEN 2 ELSE 1
                        ELSE 0
           IN  IF frac = 0 THEN <<FromInt(whole)>>
               ELSE IF frac = 1
               THEN <<Dec(whole * 10 + DigitsValue(priceStr, to + 2, to + 2), 10)>>
               ELSE <<Dec(whole * 100 + DigitsValue(priceStr, to + 2, to + 3), 100)>>

(***************************************************************************)
(* EventVerificationService: scoring                                       *)
(***************************************************************************)
timeWindowHours == 48

\* weights as they would be with the name counting for half of the score
weightsNameHalf == [name |-> Dec(5, 10), time |-> Dec(3, 10),
                    location |-> Dec(2, 10), price |-> Dec(1, 10)]

weights == [name |-> Dec(4, 10), time |-> Dec(3, 10),
            location |-> Dec(2, 10), price |-> Dec(1, 10)]

\* the sum as it would be if the scores were added from the last to the first
\* (reduceRight)
RECURSIVE ReduceRight(_, _)
ReduceRight(scores, sum) ==
  IF scores = <<>> THEN sum
  ELSE ReduceRight(SubSeq(scores, 1, Len(scores) - 1), FAdd(sum, scores[Len(scores)]))

\* scores.reduce((sum, score) => sum + score, 0)
RECURSIVE Reduce(_, _)
Reduce(scores, sum) ==
  IF scores = <<>> THEN sum ELSE Reduce(Tail(scores), FAdd(sum, Head(scores)))

nameScore(parsedEvent, realEvent) ==
  compareTwoStrings(toLowerCase(parsedEvent.summary), toLowerCase(realEvent.name))

timeScore(parsedEvent, realEvent) ==
  LET timeDiff == MathAbs(differenceInHours(parsedEvent.start, realEvent.startDateTime))
  IN  IF timeDiff # NaN /\ timeDiff[1] <= timeWindowHours
      THEN FSub(FromInt(1), FDivInt(FromInt(timeDiff[1]), timeWindowHours))
      ELSE FromInt(0)

locationScore(parsedEvent, realEvent) ==
  IF parsedEvent.location # <<>> /\ realEvent.venue # <<>>
  THEN compareTwoStrings(toLowerCase(parsedEvent.location), toLowerCase(realEvent.venue))
  ELSE Dec(5, 10)

priceScore(parsedEvent, realEvent) ==
  IF parsedEvent.price # <<>> /\ realEvent.price # <<>>
  THEN LET parsedPrice == extractPrice(parsedEvent.price)
           realPrice   == extractPrice(realEvent.price)
       IN  IF parsedPrice # <<>> /\ realPrice # <<>>
           THEN LET priceDiff == FAbsDiff(parsedPrice[1], realPrice[1])
                IN  IF FLeq(priceDiff, FromInt(10))
                    THEN FSub(FromInt(1), FDivInt(priceDiff, 100))
                    ELSE FromInt(0)
           ELSE Dec(5, 10)
  ELSE Dec(5, 10)

calculateMatchScore(parsedEvent, realEvent) ==
  Reduce(<<FMul(nameScore(parsedEvent, realEvent), weights.name),
           FMul(timeScore(parsedEvent, realEvent), weights.time),
           FMul(locationScore(parsedEvent, realEvent), weights.location),
           FMul(priceScore(parsedEvent, realEvent), weights.price)>>,
         FromInt(0))

\* the messages, without their wording: what differs (and by how many hours)
findDiscrepancies(parsedEvent, realEvent) ==
  LET timeDiff    == MathAbs(differenceInHours(parsedEvent.start, realEvent.startDateTime))
      parsedPrice == extractPrice(parsedEvent.price)
      realPrice   == extractPrice(realEvent.price)
  IN  (IF FLt(nameScore(parsedEvent, realEvent), Dec(9, 10))
       THEN <<<<"Event name differs", 0>>>> ELSE <<>>)
      \o
      (IF timeDiff # NaN /\ timeDiff[1] > 2
       THEN <<<<"Time differs by hours", timeDiff[1]>>>> ELSE <<>>)
      \o
      (IF parsedEvent.location # <<>> /\ realEvent.venue # <<>>
          /\ FLt(compareTwoStrings(toLowerCase(parsedEvent.location),
                                   toLowerCase(realEvent.venue)), Dec(8, 10))
       THEN <<<<"Venue differs", 0>>>> ELSE <<>>)
      \o
      (IF parsedEvent.price # <<>> /\ realEvent.price # <<>>
          /\ parsedPrice # <<>> /\ realPrice # <<>>
          /\ ~FLeq(FAbsDiff(parsedPrice[1], realPrice[1]), FromInt(10))
       THEN <<<<"Price differs", 0>>>> ELSE <<>>)

(***************************************************************************)
(* EventSourcesService: providers                                          *)
(***************************************************************************)
\* registration order of the providers in getAllEvents
ProviderOrder == <<"eventbrite", "ticketmaster", "meetup", "google">>
Providers == {ProviderOrder[i] : i \in 1..Len(ProviderOrder)}

\* the instant the candidates of the model start at, and new Date() of a
\* Google Places answer
CandidateStart == 100 * MinutesInHour
Now == CandidateStart - 30 * MinutesInHour

sJazzNight == <<"J","a","z","z"," ","N","i","g","h","t">>
sRockNight == <<"R","o","c","k"," ","N","i","g","h","t">>
sJAZZ == <<"J","A","Z","Z">>
sBlueNote == <<"B","l","u","e"," ","N","o","t","e">>
sFree == <<"F","r","e","e">>
sPaid == <<"P","a","i","d">>
sPrice20 == <<"$","2","0">>

\* RealEvent of an Eventbrite event (description, endDateTime, location,
\* address, imageUrl, categories and organizer are never read by the verifier)
EventbriteEvent(event) ==
  [id |-> <<"eventbrite", event.id>>, source |-> "eventbrite", name |-> event.name,
   startDateTime |-> event.start, venue |-> event.venue, url |-> event.url,
   price |-> IF event.is_free THEN sFree ELSE sPaid]

\* RealEvent of a Ticketmaster event; priceRanges is <<>> or <<[min, max]>>
TicketmasterEvent(event) ==
  [id |-> <<"ticketmaster", event.id>>, source |-> "ticketmaster", name |-> event.name,
   startDateTime |-> event.dateTime, venue |-> event.venue, url |-> event.url,
   price |-> IF event.priceRanges # <<>>
             THEN <<"$">> \o NatToText(event.priceRanges[1].min)
                  \o <<"-", "$">> \o NatToText(event.priceRanges[1].max)
             ELSE <<>>]

\* RealEvent of a Google place: a venue, starting "now", with no URL or price
GoogleEvent(place) ==
  [id |-> <<"google", place.place_id>>, source |-> "google", name |-> place.name,
   startDateTime |-> Now, venue |-> place.name, url |-> "", price |-> <<>>]

Normalise(p, payload) ==
  [i \in 1..Len(payload) |->
     IF p = "eventbrite" THEN EventbriteEvent(payload[i])
     ELSE IF p = "ticketmaster" THEN TicketmasterEvent(payload[i])
     ELSE GoogleEvent(payload[i])]

\* what the providers answer in the model
ebJazz == [id |-> "e1", name |-> sJAZZ, start |-> CandidateStart + 50 * MinutesInHour,
           venue |-> <<>>, url |-> "https://eb/1", is_free |-> TRUE]
tmJazzNight == [id |-> "t1", name |-> sJazzNight, dateTime |-> CandidateStart,
                venue |-> sBlueNote, url |-> "https://tm/1",
                priceRanges |-> <<[min |-> 20, max |-> 45]>>]
tmRockNight == [id |-> "t2", name |-> sRockNight, dateTime |-> InvalidDate,
                venue |-> sBlueNote, url |-> "", priceRanges |-> <<>>]
gBlueNote == [place_id |-> "g1", name |-> sBlueNote]

\* the payloads a provider call may answer with; the Meetup client is a
\* placeholder that returns [] without calling out
Payloads(p) ==
  IF p = "eventbrite" THEN {<<ebJazz>>}
  ELSE IF p = "ticketmaster" THEN {<<tmJazzNight>>, <<tmRockNight>>, <<tmRockNight, tmJazzNight>>}
  ELSE IF p = "meetup" THEN {<<>>}
  ELSE {<<gBlueNote>>}

\* further Ticketmaster events, for the scorer: the candidate cJazz with one
\* field changed at a time
sOpera == <<"O","p","e","r","a">>
sHall == <<"H","a","l","l">>

tmJazzHourLater == [tmJazzNight EXCEPT !.id = "t3",
                      !.dateTime = CandidateStart + 90]
tmJazzDayLater == [tmJazzNight EXCEPT !.id = "t4",
                     !.dateTime = CandidateStart + 24 * MinutesInHour]
tmJazzTwoDays == [tmJazzNight EXCEPT !.id = "t5",
                    !.dateTime = CandidateStart + 48 * MinutesInHour]
tmJazzTwoDaysHalf == [tmJazzNight EXCEPT !.id = "t6",
                        !.dateTime = CandidateStart + 48 * MinutesInHour + 30]
tmJazzLater == [tmJazzNight EXCEPT !.id = "t7",
                  !.dateTime = CandidateStart + 72 * MinutesInHour]
tmJazzEarlier == [tmJazzNight EXCEPT !.id = "t8",
                    !.dateTime = CandidateStart - 72 * MinutesInHour]
tmRockSame == [tmJazzNight EXCEPT !.id = "t9", !.name = sRockNight]
tmOpera == [id |-> "t10", name |-> sOpera, dateTime |-> CandidateStart + 72 * MinutesInHour,
            venue |-> sHall, url |-> "https://tm/10",
            priceRanges |-> <<[min |-> 80, max |-> 95]>>]

\* a Ticketmaster event whose name contains the name of cJazz
sJazzNightLive == sJazzNight \o <<" ","L","i","v","e">>
tmJazzNightLive == [tmJazzNight EXCEPT !.id = "t11", !.name = sJazzNightLive,
                      !.dateTime = CandidateStart + 90]

\* the events a Ticketmaster call of findEvent may answer with, and the lists
\* of them
FindEvents == {tmJazzNight, tmRockNight, tmJazzNightLive, tmOpera}

TicketmasterEvents ==
  {tmJazzNight, tmRockNight, tmJazzHourLater, tmJazzDayLater, tmJazzTwoDays,
   tmJazzTwoDaysHalf, tmJazzLater, tmJazzEarlier, tmRockSame, tmOpera}

\* the lists of them a Ticketmaster call may answer with
MaxEvents == 2

TicketmasterPayloads == UNION {[1..n -> TicketmasterEvents] : n \in 0..MaxEvents}

FindPayloads == UNION {[1..n -> FindEvents] : n \in 0..MaxEvents}

\* a provider call that can fail (transport error, HTTP error, bad payload)
CanFail(p) == p # "meetup"

\* results.flat() of the promises of the active providers, in the order pushed
RECURSIVE FlatFrom(_, _, _)
FlatFrom(res, active, i) ==
  IF i > Len(ProviderOrder) THEN <<>>
  ELSE (IF ProviderOrder[i] \in active THEN res[ProviderOrder[i]] ELSE <<>>)
       \o FlatFrom(res, active, i + 1)

Flat(res, active) == FlatFrom(res, active, 1)

\* how a call of provider p can end: with a normalised payload, or with [] when
\* the call failed and the failure was caught; a provider without a credential
\* is not called
Outcomes(p, active) ==
  IF p \notin active THEN {[ok |-> TRUE, events |-> <<>>]}
  ELSE {[ok |-> TRUE, events |-> Normalise(p, payload)] : payload \in Payloads(p)}
       \cup (IF CanFail(p) THEN {[ok |-> FALSE, events |-> <<>>]} ELSE {})

(***************************************************************************)
(* Candidates (ParsedEvent, with the price the scorer reads)               *)
(***************************************************************************)
cJazz == [uid |-> "jazz", summary |-> sJazzNight, description |-> "d1",
          start |-> CandidateStart, end |-> CandidateStart + 2 * MinutesInHour,
          location |-> sBlueNote, url |-> "", price |-> sPrice20]
cRock == [uid |-> "rock", summary |-> sRockNight, description |-> "",
          start |-> CandidateStart, end |-> CandidateStart + 2 * MinutesInHour,
          location |-> <<>>, url |-> "https://c/rock", price |-> <<>>]
cUndated == [uid |-> "undated", summary |-> sJazzNight, description |-> "",
             start |-> InvalidDate, end |-> InvalidDate,
             location |-> <<>>, url |-> "", price |-> sFree]

Candidates == {cJazz, cRock, cUndated}

\* cJazz with the price text of tmJazzNight: equal to it in name, start,
\* venue and price
sPrice20to45 == <<"$","2","0","-","$","4","5">>
cJazzSame == [cJazz EXCEPT !.uid = "same", !.price = sPrice20to45]

ScoreCandidates == Candidates \cup {cJazzSame}

\* cJazz with a summary that starts with a space
cJazzPadded == [cJazz EXCEPT !.uid = "padded", !.summary = <<" ">> \o sJazzNight]

FindCandidates == Candidates \cup {cJazzPadded}

\* the RealEvents the providers can return
RealEvents ==
  UNION {UNION {{Normalise(p, payload)[i] : i \in 1..Len(payload)} :
                  payload \in Payloads(p)} : p \in Providers}
  \cup {TicketmasterEvent(event) : event \in TicketmasterEvents \cup FindEvents}

\* calculateMatchScore and findDiscrepancies are pure: their values on the
\* candidates and events above, computed once
MatchScore ==
  [parsedEvent \in ScoreCandidates \cup FindCandidates, realEvent \in RealEvents |->
     calculateMatchScore(parsedEvent, realEvent)]

Discrepancies ==
  [parsedEvent \in ScoreCandidates \cup FindCandidates, realEvent \in RealEvents |->
     findDiscrepancies(parsedEvent, realEvent)]

(***************************************************************************)
(* EventSourcesService.findEvent                                           *)
(***************************************************************************)
MinutesInDay == 24 * MinutesInHour

\* the location verifyEvents is called with
SearchLocation == "city"

\* the EventSourceOptions findEvent queries getAllEvents with
findEventOptions(eventName, location, date) ==
  [location |-> location, genre |-> eventName,
   startDateTime |-> date - MinutesInDay, endDateTime |-> date + MinutesInDay]

\* events.find(...) || null on the list getAllEvents returned; null is <<>>,
\* an event e is <<e>>
RECURSIVE FindFrom(_, _, _)
FindFrom(events, normalizedSearchName, i) ==
  IF i > Len(events) THEN <<>>
  ELSE IF \/ includes(toLowerCase(events[i].name), normalizedSearchName)
          \/ includes(normalizedSearchName, toLowerCase(events[i].name))
       THEN <<events[i]>>
       ELSE FindFrom(events, normalizedSearchName, i + 1)

\* findEvent as it would be if the last matching event were returned
RECURSIVE FindLastFrom(_, _, _)
FindLastFrom(events, normalizedSearchName, i) ==
  IF i < 1 THEN <<>>
  ELSE IF \/ includes(toLowerCase(events[i].name), normalizedSearchName)
          \/ includes(normalizedSearchName, toLowerCase(events[i].name))
       THEN <<events[i]>>
       ELSE FindLastFrom(events, normalizedSearchName, i - 1)

findLastEvent(eventName, events) ==
  FindLastFrom(events, trim(toLowerCase(eventName)), Len(events))

findEvent(eventName, events) == FindFrom(events, trim(toLowerCase(eventName)), 1)

(***************************************************************************)
(* EventVerificationService.verifyEvent                                    *)
(***************************************************************************)
\* the loop over realEvents: <<bestMatch, bestScore>>, bestMatch null as <<>>
\* Better as it would be with >= in place of > at line 203
BetterOrEqual(realEvent, score, bestMatch, bestScore) ==
  IF FGeq(score, bestScore) THEN <<<<realEvent>>, score>> ELSE <<bestMatch, bestScore>>

Better(realEvent, score, bestMatch, bestScore) ==
  IF ~FLeq(score, bestScore) THEN <<<<realEvent>>, score>> ELSE <<bestMatch, bestScore>>

RECURSIVE BestMatchFrom(_, _, _, _)
BestMatchFrom(parsedEvent, realEvents, i, best) ==
  IF i > Len(realEvents) THEN best
  ELSE BestMatchFrom(parsedEvent, realEvents, i + 1,
         Better(realEvents[i], MatchScore[parsedEvent, realEvents[i]],
                best[1], best[2]))

\* BestMatch as it would be if bestMatch started as the first real event
\* instead of null
BestMatchOrFirst(parsedEvent, realEvents) ==
  BestMatchFrom(parsedEvent, realEvents, 1,
                <<IF realEvents = <<>> THEN <<>> ELSE <<realEvents[1]>>, FromInt(0)>>)

BestMatch(parsedEvent, realEvents) ==
  BestMatchFrom(parsedEvent, realEvents, 1, <<<<>>, FromInt(0)>>)

Confidence(bestScore) == MathRound(FMul(bestScore, FromInt(100)))

\* BuildVerifiedEvent as it would be if matchedSource were attached only to
\* the events that are not unverified
BuildVerifiedEventTrusted(parsedEvent, confidence, verificationStatus, discrepancies, bestMatch) ==
  [uid |-> parsedEvent.uid, summary |-> parsedEvent.summary,
   description |-> parsedEvent.description,
   start |-> parsedEvent.start, end |-> parsedEvent.end,
   location |-> parsedEvent.location, price |-> parsedEvent.price,
   url |-> IF bestMatch # <<>> /\ parsedEvent.url = "" /\ bestMatch[1].url # ""
           THEN bestMatch[1].url ELSE parsedEvent.url,
   confidence |-> confidence,
   verificationStatus |-> verificationStatus,
   discrepancies |-> discrepancies,
   matchedSource |-> IF bestMatch # <<>> /\ verificationStatus # "unverified"
                     THEN <<[name |-> bestMatch[1].name, url |-> bestMatch[1].url,
                             source |-> bestMatch[1].source]>>
                     ELSE <<>>]

\* BuildVerifiedEvent as it would be without the test !verifiedEvent.url at
\* line 260: the URL of the match replaces the one of the candidate
BuildVerifiedEventOverwriting(parsedEvent, confidence, verificationStatus, discrepancies, bestMatch) ==
  [uid |-> parsedEvent.uid, summary |-> parsedEvent.summary,
   description |-> parsedEvent.description,
   start |-> parsedEvent.start, end |-> parsedEvent.end,
   location |-> parsedEvent.location, price |-> parsedEvent.price,
   url |-> IF bestMatch # <<>> /\ bestMatch[1].url # ""
           THEN bestMatch[1].url ELSE parsedEvent.url,
   confidence |-> confidence,
   verificationStatus |-> verificationStatus,
   discrepancies |-> discrepancies,
   matchedSource |-> IF bestMatch # <<>>
                     THEN <<[name |-> bestMatch[1].name, url |-> bestMatch[1].url,
                             source |-> bestMatch[1].source]>>
                     ELSE <<>>]

\* lines 245-265: the VerifiedEvent built from the locals
BuildVerifiedEvent(parsedEvent, confidence, verificationStatus, discrepancies, bestMatch) ==
  [uid |-> parsedEvent.uid, summary |-> parsedEvent.summary,
   description |-> parsedEvent.description,
   start |-> parsedEvent.start, end |-> parsedEvent.end,
   location |-> parsedEvent.location, price |-> parsedEvent.price,
   url |-> IF bestMatch # <<>> /\ parsedEvent.url = "" /\ bestMatch[1].url # ""
           THEN bestMatch[1].url ELSE parsedEvent.url,
   confidence |-> confidence,
   verificationStatus |-> verificationStatus,
   discrepancies |-> discrepancies,
   matchedSource |-> IF bestMatch # <<>>
                     THEN <<[name |-> bestMatch[1].name, url |-> bestMatch[1].url,
                             source |-> bestMatch[1].source]>>
                     ELSE <<>>]

\* the promise of one verifyEvent call with the locals it holds: pending at
\* the await of findEvent, fulfilled with its VerifiedEvent (value), or rejected
\* initialScore keeps the score of the best match of the list; compared is
\* <<s>> once findDiscrepancies was called, on a pair of score s
Task(state, bestMatch, bestScore, confidence, verificationStatus, discrepancies, value) ==
  [state |-> state, bestMatch |-> bestMatch, bestScore |-> bestScore,
   initialScore |-> bestScore, confidence |-> confidence,
   verificationStatus |-> verificationStatus, discrepancies |-> discrepancies,
   compared |-> <<>>, value |-> value]

\* lines 209-232: the classification of the best match; below 0.5 the
\* candidate is unverified for now and findEvent is called with
\* parsedEvent.start.toISOString()
\* Classify as it would be without the branch of lines 216-222: every score
\* below 0.8 goes to findEvent
ClassifyWithoutPartial(parsedEvent, bestMatch, bestScore, confidence) ==
  IF FGeq(bestScore, Dec(8, 10))
  THEN Task("fulfilled", bestMatch, bestScore, confidence, "verified", <<>>,
            <<BuildVerifiedEvent(parsedEvent, confidence, "verified", <<>>, bestMatch)>>)
  ELSE IF toISOStringThrows(parsedEvent.start)
  THEN Task("rejected", bestMatch, bestScore, confidence, "unverified", <<>>, <<>>)
  ELSE Task("findEvent", bestMatch, bestScore, confidence, "unverified", <<>>, <<>>)

\* Classify as it would be if findDiscrepancies were called for every best
\* match below 0.8, also below 0.5
ClassifyComparingAll(parsedEvent, bestMatch, bestScore, confidence) ==
  IF FGeq(bestScore, Dec(8, 10))
  THEN Task("fulfilled", bestMatch, bestScore, confidence, "verified", <<>>,
            <<BuildVerifiedEvent(parsedEvent, confidence, "verified", <<>>, bestMatch)>>)
  ELSE IF FGeq(bestScore, Dec(5, 10))
  THEN [Task("fulfilled", bestMatch, bestScore, confidence, "partial",
             IF bestMatch # <<>> THEN Discrepancies[parsedEvent, bestMatch[1]] ELSE <<>>,
             <<BuildVerifiedEvent(parsedEvent, confidence, "partial",
                 IF bestMatch # <<>> THEN Discrepancies[parsedEvent, bestMatch[1]] ELSE <<>>,
                 bestMatch)>>)
          EXCEPT !.compared = IF bestMatch # <<>> THEN <<bestScore>> ELSE <<>>]
  ELSE IF toISOStringThrows(parsedEvent.start)
  THEN [Task("rejected", bestMatch, bestScore, confidence, "unverified", <<>>, <<>>)
          EXCEPT !.compared = IF bestMatch # <<>> THEN <<bestScore>> ELSE <<>>]
  ELSE [Task("findEvent", bestMatch, bestScore, confidence, "unverified", <<>>, <<>>)
          EXCEPT !.compared = IF bestMatch # <<>> THEN <<bestScore>> ELSE <<>>]

Classify(parsedEvent, bestMatch, bestScore, confidence) ==
  IF FGeq(bestScore, Dec(8, 10))
  THEN Task("fulfilled", bestMatch, bestScore, confidence, "verified", <<>>,
            <<BuildVerifiedEvent(parsedEvent, confidence, "verified", <<>>, bestMatch)>>)
  ELSE IF FGeq(bestScore, Dec(5, 10))
  THEN [Task("fulfilled", bestMatch, bestScore, confidence, "partial",
             IF bestMatch # <<>> THEN Discrepancies[parsedEvent, bestMatch[1]] ELSE <<>>,
             <<BuildVerifiedEvent(parsedEvent, confidence, "partial",
                 IF bestMatch # <<>> THEN Discrepancies[parsedEvent, bestMatch[1]] ELSE <<>>,
                 bestMatch)>>)
          EXCEPT !.compared = IF bestMatch # <<>> THEN <<bestScore>> ELSE <<>>]
  ELSE IF toISOStringThrows(parsedEvent.start)
  THEN Task("rejected", bestMatch, bestScore, confidence, "unverified", <<>>, <<>>)
  ELSE Task("findEvent", bestMatch, bestScore, confidence, "unverified", <<>>, <<>>)

ClassifyBest(parsedEvent, best) ==
  Classify(parsedEvent, best[1], best[2], Confidence(best[2]))

\* lines 196-232: verifyEvent up to its return, its await or its exception
VerifyEventStart(parsedEvent, realEvents) ==
  ClassifyBest(parsedEvent, BestMatch(parsedEvent, realEvents))

\* Reclassify as it would be if the discrepancies of the direct match were
\* collected before the threshold test instead of inside it
ReclassifyEager(task, parsedEvent, directMatch, bestScore, confidence) ==
  [Task("fulfilled", directMatch, bestScore, confidence,
        IF FGeq(bestScore, Dec(5, 10)) THEN "partial" ELSE task.verificationStatus,
        Discrepancies[parsedEvent, directMatch[1]],
        <<BuildVerifiedEvent(parsedEvent, confidence,
            IF FGeq(bestScore, Dec(5, 10)) THEN "partial" ELSE task.verificationStatus,
            Discrepancies[parsedEvent, directMatch[1]], directMatch)>>)
     EXCEPT !.compared = <<bestScore>>]

\* Reclassify as it would be if lines 238-241 were missing: a direct match
\* changes the score and the confidence, never the status
ReclassifyNever(task, parsedEvent, directMatch, bestScore, confidence) ==
  Task("fulfilled", directMatch, bestScore, confidence, task.verificationStatus,
       task.discrepancies,
       <<BuildVerifiedEvent(parsedEvent, confidence, task.verificationStatus,
           task.discrepancies, directMatch)>>)

\* Reclassify as it would be if the direct match were classified like the
\* best match of the list, verified from 0.8
ReclassifyByThresholds(task, parsedEvent, directMatch, bestScore, confidence) ==
  IF FGeq(bestScore, Dec(8, 10))
  THEN Task("fulfilled", directMatch, bestScore, confidence, "verified", <<>>,
            <<BuildVerifiedEvent(parsedEvent, confidence, "verified", <<>>, directMatch)>>)
  ELSE IF FGeq(bestScore, Dec(5, 10))
  THEN [Task("fulfilled", directMatch, bestScore, confidence, "partial",
             Discrepancies[parsedEvent, directMatch[1]],
             <<BuildVerifiedEvent(parsedEvent, confidence, "partial",
                 Discrepancies[parsedEvent, directMatch[1]], directMatch)>>)
          EXCEPT !.compared = <<bestScore>>]
  ELSE Task("fulfilled", directMatch, bestScore, confidence, task.verificationStatus,
            task.discrepancies,
            <<BuildVerifiedEvent(parsedEvent, confidence, task.verificationStatus,
                task.discrepancies, directMatch)>>)

\* lines 235-242: the locals after a direct match was found
Reclassify(task, parsedEvent, directMatch, bestScore, confidence) ==
  IF FGeq(bestScore, Dec(5, 10))
  THEN [Task("fulfilled", directMatch, bestScore, confidence, "partial",
             Discrepancies[parsedEvent, directMatch[1]],
             <<BuildVerifiedEvent(parsedEvent, confidence, "partial",
                 Discrepancies[parsedEvent, directMatch[1]], directMatch)>>)
          EXCEPT !.compared = <<bestScore>>]
  ELSE [Task("fulfilled", directMatch, bestScore, confidence, task.verificationStatus,
             task.discrepancies,
             <<BuildVerifiedEvent(parsedEvent, confidence, task.verificationStatus,
                 task.discrepancies, directMatch)>>)
          EXCEPT !.compared = task.compared]

\* Rescore as it would be if line 237 were missing: the confidence of the
\* list's best match is kept
RescoreStale(task, parsedEvent, directMatch, bestScore) ==
  [Reclassify(task, parsedEvent, directMatch, bestScore, task.confidence)
     EXCEPT !.initialScore = task.initialScore]

\* lines 236-237: bestScore and confidence are recomputed for the direct match
Rescore(task, parsedEvent, directMatch, bestScore) ==
  [Reclassify(task, parsedEvent, directMatch, bestScore, Confidence(bestScore))
     EXCEPT !.initialScore = task.initialScore]

\* lines 234-265: verifyEvent from the answer of findEvent to its return
VerifyEventResume(task, parsedEvent, directMatch) ==
  IF directMatch # <<>>
  THEN Rescore(task, parsedEvent, directMatch,
               MatchScore[parsedEvent, directMatch[1]])
  ELSE [task EXCEPT !.state = "fulfilled",
                    !.value = <<BuildVerifiedEvent(parsedEvent, task.confidence,
                                  task.verificationStatus, task.discrepancies,
                                  task.bestMatch)>>]

(***************************************************************************)
(* EventVerificationService.calculateStats                                 *)
(***************************************************************************)
\* CountStatus as it would be if only the events with a matched source were
\* counted
CountMatched(verifiedEvents, status) ==
  Cardinality({i \in 1..Len(verifiedEvents) :
                 /\ verifiedEvents[i].verificationStatus = status
                 /\ verifiedEvents[i].matchedSource # <<>>})

\* lines 383-385: events.filter(e => e.verificationStatus === status).length
CountStatus(verifiedEvents, status) ==
  Cardinality({i \in 1..Len(verifiedEvents) : verifiedEvents[i].verificationStatus = status})

RECURSIVE SumConfidence(_)
SumConfidence(verifiedEvents) ==
  IF verifiedEvents = <<>> THEN 0
  ELSE Head(verifiedEvents).confidence + SumConfidence(Tail(verifiedEvents))

\* calculateStats as it would be with Math.floor in place of Math.round
calculateStatsFloor(verifiedEvents) ==
  [totalEvents |-> Len(verifiedEvents),
   verifiedCount |-> CountStatus(verifiedEvents, "verified"),
   partialCount |-> CountStatus(verifiedEvents, "partial"),
   unverifiedCount |-> CountStatus(verifiedEvents, "unverified"),
   averageConfidence |-> IF Len(verifiedEvents) > 0
                         THEN SumConfidence(verifiedEvents) \div Len(verifiedEvents)
                         ELSE 0]

calculateStats(verifiedEvents) ==
  LET totalEvents == Len(verifiedEvents)
      averageConfidence == IF totalEvents > 0
                           THEN FDivInt(FromInt(SumConfidence(verifiedEvents)), totalEvents)
                           ELSE FromInt(0)
  IN  [totalEvents |-> totalEvents,
       verifiedCount |-> CountStatus(verifiedEvents, "verified"),
       partialCount |-> CountStatus(verifiedEvents, "partial"),
       unverifiedCount |-> CountStatus(verifiedEvents, "unverified"),
       averageConfidence |-> MathRound(averageConfidence)]

(***************************************************************************)
(* EventVerificationService.shouldTrustEvent                               *)
(***************************************************************************)
\* the default of the parameter minConfidence
DefaultMinConfidence == 60

\* shouldTrustEvent as it would be with || in place of &&
shouldTrustEventEither(event, minConfidence) ==
  event.confidence >= minConfidence \/ event.verificationStatus # "unverified"

shouldTrustEvent(event, minConfidence) ==
  event.confidence >= minConfidence /\ event.verificationStatus # "unverified"

\* shouldTrustEvent(event)
shouldTrustEventDefault(event) == shouldTrustEvent(event, DefaultMinConfidence)

(***************************************************************************)
(* One verifyEvents call on a constructed EventVerificationService         *)
(***************************************************************************)
MaxBatch == 2

Batches == UNION {[1..n -> Candidates] : n \in 0..MaxBatch}

VARIABLES
  keys,            \* the providers whose credential is configured
  pc,              \* where verifyEvents is
  parsedEvents,    \* the batch verifyEvents was called with
  calls,           \* getAllEvents of verifyEvents: the provider calls
  results,         \* ... what each call resolved to
  failed,          \* ... the providers whose call failed
  arrival,         \* ... the providers in the order their calls settled
  realEvents,      \* what that getAllEvents returned
  tasks,           \* the verifyEvent promises, in the order of parsedEvents
  findFailed,      \* the indexes of the tasks whose findEvent had every call fail
  settled,         \* the indexes of tasks in the order they settled
  fanouts,         \* the number of getAllEvents calls made so far
  lookup,          \* the last findEvent call: its candidate, query and list
  verifiedEvents,  \* the VerificationResult returned
  stats

vars == <<keys, pc, parsedEvents, calls, results, failed, arrival, realEvents,
          tasks, findFailed, settled, fanouts, lookup, verifiedEvents, stats>>

\* the constructors read the credentials from the environment
Init ==
  /\ keys \in SUBSET Providers
  /\ pc = "idle"
  /\ parsedEvents = <<>>
  /\ calls = [p \in Providers |-> "unused"]
  /\ results = [p \in Providers |-> <<>>]
  /\ failed = {}
  /\ arrival = <<>>
  /\ realEvents = <<>>
  /\ tasks = <<>>
  /\ findFailed = {}
  /\ settled = <<>>
  /\ fanouts = 0
  /\ lookup = <<>>
  /\ verifiedEvents = <<>>
  /\ stats = <<>>

\* verifyEvents is called: getAllEvents pushes one caught call per configured
\* provider and awaits them all
VerifyEventsCall(batch) ==
  /\ pc = "idle"
  /\ parsedEvents' = batch
  /\ calls' = [p \in Providers |-> IF p \in keys THEN "pending" ELSE "unused"]
  /\ fanouts' = fanouts + 1
  /\ pc' = "getAllEvents"
  /\ UNCHANGED <<keys, results, failed, arrival, realEvents, tasks, findFailed, settled,
                 verifiedEvents, stats, lookup>>

\* a provider answers and its client returns the normalised events
ProviderAnswers(p, payload) ==
  /\ pc = "getAllEvents"
  /\ calls[p] = "pending"
  /\ calls' = [calls EXCEPT ![p] = "settled"]
  /\ results' = [results EXCEPT ![p] = Normalise(p, payload)]
  /\ arrival' = Append(arrival, p)
  /\ UNCHANGED <<keys, pc, parsedEvents, failed, realEvents, tasks, findFailed, settled, fanouts,
                 verifiedEvents, stats, lookup>>

\* a provider call fails: the client catches the error and returns []
ProviderFails(p) ==
  /\ pc = "getAllEvents"
  /\ calls[p] = "pending"
  /\ CanFail(p)
  /\ calls' = [calls EXCEPT ![p] = "settled"]
  /\ results' = [results EXCEPT ![p] = <<>>]
  /\ failed' = failed \cup {p}
  /\ arrival' = Append(arrival, p)
  /\ UNCHANGED <<keys, pc, parsedEvents, realEvents, tasks, findFailed, settled, fanouts,
                 verifiedEvents, stats, lookup>>

\* the results as they would be if they were collected as the calls settle
RECURSIVE FlatInOrder(_, _, _)
FlatInOrder(res, order, i) ==
  IF i > Len(order) THEN <<>> ELSE res[order[i]] \o FlatInOrder(res, order, i + 1)

AwaitedInArrivalOrder == FlatInOrder(results, arrival, 1)

\* (await Promise.all(promises)).flat(): the results by position in promises
AwaitedEvents == Flat(results, keys)

\* Promise.all resolves once no call is outstanding; getAllEvents returns
GetAllEventsReturns ==
  /\ pc = "getAllEvents"
  /\ \A p \in Providers : calls[p] \in {"unused", "settled"}
  /\ realEvents' = AwaitedEvents
  /\ pc' = "verify"
  /\ UNCHANGED <<keys, parsedEvents, calls, results, failed, arrival, tasks, findFailed, settled,
                 fanouts, verifiedEvents, stats, lookup>>

\* parsedEvents.map(verifyEvent): every verifyEvent runs up to its return, its
\* await of findEvent (which calls getAllEvents at once) or its exception
VerifyEach ==
  /\ pc = "verify"
  /\ tasks' = [i \in 1..Len(parsedEvents) |-> VerifyEventStart(parsedEvents[i], realEvents)]
  /\ settled' = SelectSeq([i \in 1..Len(parsedEvents) |-> i],
                          LAMBDA i : tasks'[i].state # "findEvent")
  /\ fanouts' = fanouts + Cardinality({i \in 1..Len(parsedEvents) :
                                         tasks'[i].state = "findEvent"})
  /\ pc' = "awaitAll"
  /\ calls' = [p \in Providers |-> "unused"]
  /\ results' = [p \in Providers |-> <<>>]
  /\ arrival' = <<>>
  /\ UNCHANGED <<keys, parsedEvents, failed, realEvents, findFailed, verifiedEvents, stats, lookup>>

\* the getAllEvents of the findEvent of candidate i returns (each configured
\* provider answered or failed) and verifyEvent runs to its return.  A rejected
\* verifyEvent rejects Promise.all before any answer can arrive.
FindEventOutcomes(eb, tm, mu, go) ==
  [p \in Providers |->
     IF p = "eventbrite" THEN eb ELSE IF p = "ticketmaster" THEN tm
     ELSE IF p = "meetup" THEN mu ELSE go]

FindEventResults(eb, tm, mu, go) ==
  [p \in Providers |-> FindEventOutcomes(eb, tm, mu, go)[p].events]

\* FindEventReturns as it would be if bestMatch were a field of the service
\* shared by the verifyEvent calls instead of a local of each: the direct
\* match of candidate i is seen by the candidates still awaiting findEvent
FindEventReturnsShared(i, eb, tm, mu, go) ==
  /\ pc = "awaitAll"
  /\ tasks[i].state = "findEvent"
  /\ \A j \in 1..Len(tasks) : tasks[j].state # "rejected"
  /\ tasks' = [j \in 1..Len(tasks) |->
                IF j = i
                THEN VerifyEventResume(tasks[i], parsedEvents[i],
                       findEvent(parsedEvents[i].summary,
                                 Flat(FindEventResults(eb, tm, mu, go), keys)))
                ELSE IF tasks[j].state = "findEvent"
                THEN [tasks[j] EXCEPT !.bestMatch =
                        findEvent(parsedEvents[i].summary,
                                  Flat(FindEventResults(eb, tm, mu, go), keys))]
                ELSE tasks[j]]
  /\ findFailed' = IF \A p \in keys : ~FindEventOutcomes(eb, tm, mu, go)[p].ok
                   THEN findFailed \cup {i} ELSE findFailed
  /\ settled' = Append(settled, i)
  /\ lookup' = <<[index |-> i,
                  options |-> findEventOptions(parsedEvents[i].summary, SearchLocation,
                                               parsedEvents[i].start),
                  events |-> Flat(FindEventResults(eb, tm, mu, go), keys),
                  result |-> findEvent(parsedEvents[i].summary,
                                       Flat(FindEventResults(eb, tm, mu, go), keys))]>>
  /\ UNCHANGED <<keys, pc, parsedEvents, calls, results, failed, arrival, realEvents,
                 fanouts, verifiedEvents, stats>>

FindEventReturns(i, eb, tm, mu, go) ==
  /\ pc = "awaitAll"
  /\ tasks[i].state = "findEvent"
  /\ \A j \in 1..Len(tasks) : tasks[j].state # "rejected"
  /\ tasks' = [tasks EXCEPT ![i] =
                VerifyEventResume(tasks[i], parsedEvents[i],
                  findEvent(parsedEvents[i].summary,
                            Flat(FindEventResults(eb, tm, mu, go), keys)))]
  /\ findFailed' = IF \A p \in keys : ~FindEventOutcomes(eb, tm, mu, go)[p].ok
                   THEN findFailed \cup {i} ELSE findFailed
  /\ settled' = Append(settled, i)
  /\ lookup' = <<[index |-> i,
                  options |-> findEventOptions(parsedEvents[i].summary, SearchLocation,
                                               parsedEvents[i].start),
                  events |-> Flat(FindEventResults(eb, tm, mu, go), keys),
                  result |-> findEvent(parsedEvents[i].summary,
                                       Flat(FindEventResults(eb, tm, mu, go), keys))]>>
  /\ UNCHANGED <<keys, pc, parsedEvents, calls, results, failed, arrival, realEvents,
                 fanouts, verifiedEvents, stats>>

\* the values as they would be if each were pushed when its promise settles
PromiseAllBySettlement == [k \in 1..Len(settled) |-> tasks[settled[k]].value[1]]

\* await Promise.all(...): the values by position
PromiseAllValues == [i \in 1..Len(tasks) |-> tasks[i].value[1]]

\* all verifyEvent promises are fulfilled: the stats are computed and
\* verifyEvents returns
VerifyEventsReturns ==
  /\ pc = "awaitAll"
  /\ \A i \in 1..Len(tasks) : tasks[i].state = "fulfilled"
  /\ verifiedEvents' = PromiseAllValues
  /\ stats' = calculateStats(verifiedEvents')
  /\ pc' = "done"
  /\ UNCHANGED <<keys, parsedEvents, calls, results, failed, arrival, realEvents,
                 tasks, findFailed, settled, fanouts, lookup>>

\* a verifyEvent promise is rejected: Promise.all, and with it verifyEvents,
\* rejects
VerifyEventsRejects ==
  /\ pc = "awaitAll"
  /\ \E i \in 1..Len(tasks) : tasks[i].state = "rejected"
  /\ pc' = "rejected"
  /\ UNCHANGED <<keys, parsedEvents, calls, results, failed, arrival, realEvents,
                 tasks, findFailed, settled, fanouts, verifiedEvents, stats, lookup>>

Next ==
  \/ \E batch \in Batches : VerifyEventsCall(batch)
  \/ \E p \in Providers : \E payload \in Payloads(p) : ProviderAnswers(p, payload)
  \/ \E p \in Providers : ProviderFails(p)
  \/ GetAllEventsReturns
  \/ VerifyEach
  \/ \E i \in 1..Len(tasks) :
       \E eb \in Outcomes("eventbrite", keys) : \E tm \in Outcomes("ticketmaster", keys) :
         \E mu \in Outcomes("meetup", keys) : \E go \in Outcomes("google", keys) :
           FindEventReturns(i, eb, tm, mu, go)
  \/ VerifyEventsReturns
  \/ VerifyEventsRejects

Spec == Init /\ [][Next]_vars

(***************************************************************************)
(* A provider that never answers.  axios.get is called without a timeout   *)
(* (lines 115-120, 167-169, 248-257 of event-sources.service.ts) and       *)
(* getAllEvents awaits Promise.all of the calls with no timer of its own   *)
(* (lines 87-91): no step of the program settles a call that hangs.        *)
(***************************************************************************)
ProviderHangs(p) ==
  /\ pc = "getAllEvents"
  /\ calls[p] = "pending"
  /\ CanFail(p)
  /\ calls' = [calls EXCEPT ![p] = "hung"]
  /\ UNCHANGED <<keys, pc, parsedEvents, results, failed, arrival, realEvents, tasks,
                 findFailed, settled, fanouts, verifiedEvents, stats, lookup>>

NextHang ==
  \/ Next
  \/ \E p \in Providers : ProviderHangs(p)

\* a call that has not hung settles
ProviderSettles ==
  \/ \E p \in Providers : \E payload \in Payloads(p) : ProviderAnswers(p, payload)
  \/ \E p \in Providers : ProviderFails(p)

\* a call that has not hung settles, and the event loop resumes getAllEvents
\* once Promise.all has resolved
FairSpec ==
  Init /\ [][NextHang]_vars /\ WF_vars(ProviderSettles) /\ WF_vars(GetAllEventsReturns)

(***************************************************************************)
(* verifyEvents on one candidate with Ticketmaster as the only provider,   *)
(* answering with any list of TicketmasterEvents: the scorer and the       *)
(* best-match search on every pair and list of them.                       *)
(***************************************************************************)
ScoreInit == Init /\ keys = {"ticketmaster"}

ScoreNext ==
  \/ \E parsedEvent \in ScoreCandidates : VerifyEventsCall(<<parsedEvent>>)
  \/ \E payload \in TicketmasterPayloads : ProviderAnswers("ticketmaster", payload)
  \/ ProviderFails("ticketmaster")
  \/ GetAllEventsReturns
  \/ VerifyEach
  \/ \E tm \in Outcomes("ticketmaster", keys) :
       FindEventReturns(1, [ok |-> TRUE, events |-> <<>>], tm,
                        [ok |-> TRUE, events |-> <<>>], [ok |-> TRUE, events |-> <<>>])
  \/ VerifyEventsReturns
  \/ VerifyEventsRejects

ScoreSpec == ScoreInit /\ [][ScoreNext]_vars

(***************************************************************************)
(* verifyEvents on one candidate with Eventbrite and Ticketmaster          *)
(* configured, the Ticketmaster call of findEvent answering with any list  *)
(* of FindEvents: findEvent on every candidate and list of them.           *)
(***************************************************************************)
FindInit == Init /\ keys = {"eventbrite", "ticketmaster"}

\* how the Ticketmaster call of findEvent can end
FindOutcomes ==
  {[ok |-> TRUE, events |-> Normalise("ticketmaster", payload)] : payload \in FindPayloads}
  \cup {[ok |-> FALSE, events |-> <<>>]}

FindNext ==
  \/ \E parsedEvent \in FindCandidates : VerifyEventsCall(<<parsedEvent>>)
  \/ \E p \in Providers : \E payload \in Payloads(p) : ProviderAnswers(p, payload)
  \/ \E p \in Providers : ProviderFails(p)
  \/ GetAllEventsReturns
  \/ VerifyEach
  \/ \E eb \in Outcomes("eventbrite", keys) : \E tm \in FindOutcomes :
       FindEventReturns(1, eb, tm, [ok |-> TRUE, events |-> <<>>],
                        [ok |-> TRUE, events |-> <<>>])
  \/ VerifyEventsReturns
  \/ VerifyEventsRejects

FindSpec == FindInit /\ [][FindNext]_vars

(***************************************************************************)
(* Properties of verifyEvents and getAllEvents                             *)
(***************************************************************************)
\* the score verifyEvent last computed for candidate i
FinalScore(i) == tasks[i].bestScore

\* the status the thresholds 0.8 and 0.5 give a score
StatusOfScore(score) ==
  IF FGeq(score, Dec(8, 10)) THEN "verified"
  ELSE IF FGeq(score, Dec(5, 10)) THEN "partial"
  ELSE "unverified"

\* C1: every VerifiedEvent that verifyEvents returns has
\* confidence = Math.round(score * 100) for the score last computed for its
\* candidate (the list's best score, or the score of the direct match when
\* findEvent found one), and the confidence is between 0 and 100.
C1_ConfidenceIsRoundedScore ==
  pc = "done" =>
    \A i \in 1..Len(verifiedEvents) :
      /\ verifiedEvents[i].confidence = MathRound(FMul(FinalScore(i), FromInt(100)))
      /\ verifiedEvents[i].confidence >= 0
      /\ verifiedEvents[i].confidence <= 100

\* a result in which a candidate stayed unverified although findEvent found a
\* direct match, whose score replaced the one of the list's best match
C1_Witness ==
  /\ pc = "done"
  /\ \E i \in 1..Len(verifiedEvents) :
       /\ FinalScore(i) # tasks[i].initialScore
       /\ verifiedEvents[i].verificationStatus = "unverified"
       /\ verifiedEvents[i].matchedSource # <<>>
       /\ verifiedEvents[i].confidence > 0

\* C2: in every result of verifyEvents the three status counts add up to
\* totalEvents, and totalEvents is the number of candidates given.
C2_CountsAddUp ==
  pc = "done" =>
    /\ stats.verifiedCount + stats.partialCount + stats.unverifiedCount = stats.totalEvents
    /\ stats.totalEvents = Len(parsedEvents)

\* a result over two candidates of different status
C2_Witness ==
  /\ pc = "done"
  /\ Len(parsedEvents) = 2
  /\ stats.verifiedCount = 1
  /\ stats.partialCount = 1

\* C3: verifyEvents returns one VerifiedEvent per candidate, the i-th for the
\* i-th candidate, in whatever order the findEvent lookups completed.
C3_OneResultPerCandidateInOrder ==
  pc = "done" =>
    /\ Len(verifiedEvents) = Len(parsedEvents)
    /\ \A i \in 1..Len(parsedEvents) :
         /\ verifiedEvents[i].uid = parsedEvents[i].uid
         /\ verifiedEvents[i].summary = parsedEvents[i].summary
         /\ verifiedEvents[i].start = parsedEvents[i].start

\* a result for two different candidates where the lookup of the second
\* completed before the lookup of the first
C3_Witness ==
  /\ pc = "done"
  /\ Len(parsedEvents) = 2
  /\ parsedEvents[1].uid # parsedEvents[2].uid
  /\ settled = <<2, 1>>
  /\ tasks[1].state = "fulfilled"
  /\ tasks[2].state = "fulfilled"

\* C4: when no provider has a credential or every configured provider's call
\* fails (in verifyEvents' getAllEvents and in every findEvent), getAllEvents
\* returns [] and every candidate of the batch ends unverified with
\* confidence 0: no verifyEvent is rejected, and every one that has returned
\* returned such a VerifiedEvent.
C4_NoProviderAnswers ==
  /\ (pc = "verify" /\ keys \subseteq failed) => realEvents = <<>>
  /\ (pc \in {"awaitAll", "done", "rejected"} /\ keys \subseteq failed) =>
       \A i \in 1..Len(tasks) :
         /\ tasks[i].state # "rejected"
         /\ (tasks[i].state = "fulfilled" /\ i \in findFailed) =>
              /\ tasks[i].value[1].verificationStatus = "unverified"
              /\ tasks[i].value[1].confidence = 0

\* C5: getAllEvents returns the lists of the providers whose call succeeded,
\* concatenated in the order eventbrite, ticketmaster, meetup, google, a
\* failed provider and a provider without credential contributing nothing,
\* whatever the order in which the calls settled.
Contribution(p) == IF p \in keys /\ p \notin failed THEN results[p] ELSE <<>>

C5_ConcatenationInRegistrationOrder ==
  pc = "verify" =>
    realEvents = Contribution("eventbrite") \o Contribution("ticketmaster")
                 \o Contribution("meetup") \o Contribution("google")

\* getAllEvents has returned after the last registered provider answered
\* first, the first registered one failed, and two providers returned events
C5_Witness ==
  /\ pc = "verify"
  /\ Len(arrival) = 4
  /\ arrival[1] = "google"
  /\ "eventbrite" \in failed
  /\ Len(results["ticketmaster"]) = 2
  /\ results["google"] # <<>>

\* C6: verifyEvents never fails: no verifyEvent is rejected and the call is
\* never rejected, whatever the candidates (an invalid start instant
\* included) and whatever the providers return.
C6_VerifyEventsNeverFails ==
  /\ pc # "rejected"
  /\ \A i \in 1..Len(tasks) : tasks[i].state # "rejected"

\* C7: a getAllEvents that is waiting for its provider calls eventually
\* returns, also when one of the calls never completes.
C7_GetAllEventsEventuallyReturns == (pc = "getAllEvents") ~> (pc = "verify")

\* C8: in every VerifiedEvent that verifyEvents returns the status is the one
\* the thresholds give the final score of the candidate: verified from 0.8,
\* partial from 0.5 to below 0.8, unverified below 0.5.
C8_StatusAgreesWithFinalScore ==
  pc = "done" =>
    \A i \in 1..Len(verifiedEvents) :
      verifiedEvents[i].verificationStatus = StatusOfScore(FinalScore(i))

\* C9: the confidence of every VerifiedEvent that verifyEvents returns is in
\* the band of its status: verified at least 80, partial 50 to 79,
\* unverified below 50.
C9_ConfidenceInBandOfStatus ==
  pc = "done" =>
    \A i \in 1..Len(verifiedEvents) :
      /\ verifiedEvents[i].verificationStatus = "verified"
           => verifiedEvents[i].confidence >= 80
      /\ verifiedEvents[i].verificationStatus = "partial"
           => verifiedEvents[i].confidence >= 50 /\ verifiedEvents[i].confidence <= 79
      /\ verifiedEvents[i].verificationStatus = "unverified"
           => verifiedEvents[i].confidence < 50

\* C10: a VerifiedEvent that verifyEvents returns carries discrepancies only
\* if its status is partial (<<>> is the absent list).
C10_DiscrepanciesOnlyWhenPartial ==
  pc = "done" =>
    \A i \in 1..Len(verifiedEvents) :
      verifiedEvents[i].discrepancies # <<>>
        => verifiedEvents[i].verificationStatus = "partial"

\* a result with a partial event that carries discrepancies next to a
\* verified event, matched too, that carries none
C10_Witness ==
  /\ pc = "done"
  /\ \E i, j \in 1..Len(verifiedEvents) :
       /\ verifiedEvents[i].verificationStatus = "partial"
       /\ verifiedEvents[i].discrepancies # <<>>
       /\ verifiedEvents[j].verificationStatus = "verified"
       /\ verifiedEvents[j].matchedSource # <<>>
       /\ verifiedEvents[j].discrepancies = <<>>

C12_UpgradedCarriesDiscrepancies ==
  \A i \in 1..Len(tasks) :
    (/\ tasks[i].state = "fulfilled"
     /\ FLt(tasks[i].initialScore, Dec(5, 10))
     /\ tasks[i].value[1].verificationStatus = "partial")
      => tasks[i].value[1].discrepancies # <<>>

\* the real event has the name, the start instant, the venue and the
\* (parseable) price of the candidate
Identical(parsedEvent, realEvent) ==
  /\ parsedEvent.summary = realEvent.name
  /\ parsedEvent.start # InvalidDate
  /\ parsedEvent.start = realEvent.startDateTime
  /\ parsedEvent.location # <<>>
  /\ parsedEvent.location = realEvent.venue
  /\ parsedEvent.price # <<>>
  /\ parsedEvent.price = realEvent.price
  /\ extractPrice(parsedEvent.price) # <<>>

\* C13: a candidate whose list holds a real event identical to it in name,
\* start, venue and price scores exactly 1.0 against that event and is
\* verified with confidence 100 and without discrepancies.
C13_IdenticalScoresOne ==
  pc \in {"awaitAll", "done"} =>
    \A i \in 1..Len(tasks) : \A k \in 1..Len(realEvents) :
      Identical(parsedEvents[i], realEvents[k]) =>
        /\ MatchScore[parsedEvents[i], realEvents[k]] = FromInt(1)
        /\ tasks[i].state = "fulfilled"
        /\ tasks[i].value[1].verificationStatus = "verified"
        /\ tasks[i].value[1].confidence = 100
        /\ tasks[i].value[1].discrepancies = <<>>

\* the candidate is titled "Jazz Night", the real event "Rock Night", and
\* they have the same start instant, venue and price
OnlyNameDiffers(parsedEvent, realEvent) ==
  /\ parsedEvent.summary = sJazzNight
  /\ realEvent.name = sRockNight
  /\ Identical([parsedEvent EXCEPT !.summary = sRockNight], realEvent)

MinutesApart(parsedEvent, realEvent) ==
  IF parsedEvent.start >= realEvent.startDateTime
  THEN parsedEvent.start - realEvent.startDateTime
  ELSE realEvent.startDateTime - parsedEvent.start

HoursApart(parsedEvent, realEvent) == MinutesApart(parsedEvent, realEvent) \div MinutesInHour

BothDated(parsedEvent, realEvent) ==
  parsedEvent.start # InvalidDate /\ realEvent.startDateTime # InvalidDate

\* C15: for a candidate and a real event whose starts are more than 48 hours
\* apart the time sub-score is 0, the score is at most 0.70 and the candidate
\* is not verified by that event; for starts d <= 48 whole hours apart the
\* time sub-score is 1 - d/48, and it does not grow with d.
C15_TimeScore ==
  pc \in {"awaitAll", "done"} =>
    \A i \in 1..Len(tasks) : \A k \in 1..Len(realEvents) :
      BothDated(parsedEvents[i], realEvents[k]) =>
        /\ MinutesApart(parsedEvents[i], realEvents[k]) > 48 * MinutesInHour =>
             /\ timeScore(parsedEvents[i], realEvents[k]) = FromInt(0)
             /\ FLeq(MatchScore[parsedEvents[i], realEvents[k]], Dec(70, 100))
             /\ (tasks[i].state = "fulfilled" /\ tasks[i].bestMatch = <<realEvents[k]>>)
                  => tasks[i].value[1].verificationStatus # "verified"
        /\ HoursApart(parsedEvents[i], realEvents[k]) <= 48 =>
             timeScore(parsedEvents[i], realEvents[k])
               = FSub(FromInt(1), FDivInt(FromInt(HoursApart(parsedEvents[i], realEvents[k])), 48))
        /\ \A j \in 1..Len(realEvents) :
             (/\ realEvents[j].startDateTime # InvalidDate
              /\ HoursApart(parsedEvents[i], realEvents[j])
                   <= HoursApart(parsedEvents[i], realEvents[k])
              /\ HoursApart(parsedEvents[i], realEvents[k]) <= 48)
               => FGeq(timeScore(parsedEvents[i], realEvents[j]),
                       timeScore(parsedEvents[i], realEvents[k]))

\* the values of minConfidence the returned events are asked about
MinConfidences == {0, 45, 55, 60, 80, 100}

\* C16: shouldTrustEvent(event, minConfidence) is true exactly when the
\* confidence of the event is at least minConfidence and its status is not
\* unverified, minConfidence being 60 when it is not given; an unverified
\* event is not trusted for any minConfidence.
C16_ShouldTrustEvent ==
  pc = "done" =>
    \A i \in 1..Len(verifiedEvents) :
      /\ \A minConfidence \in MinConfidences :
           /\ shouldTrustEvent(verifiedEvents[i], minConfidence)
                <=> (/\ verifiedEvents[i].confidence >= minConfidence
                     /\ verifiedEvents[i].verificationStatus \in {"verified", "partial"})
           /\ verifiedEvents[i].verificationStatus = "unverified"
                => ~shouldTrustEvent(verifiedEvents[i], minConfidence)
      /\ shouldTrustEventDefault(verifiedEvents[i])
           <=> (/\ verifiedEvents[i].confidence >= 60
                /\ verifiedEvents[i].verificationStatus \in {"verified", "partial"})

\* a result with an event that is trusted by default next to an unverified
\* event of positive confidence that is not trusted even for minConfidence 0
C16_Witness ==
  /\ pc = "done"
  /\ \E i, j \in 1..Len(verifiedEvents) :
       /\ shouldTrustEventDefault(verifiedEvents[i])
       /\ verifiedEvents[j].verificationStatus = "unverified"
       /\ verifiedEvents[j].confidence > 0
       /\ ~shouldTrustEvent(verifiedEvents[j], 0)

\* the sum of the confidences of the first n events returned
RECURSIVE ConfidenceTotal(_)
ConfidenceTotal(n) ==
  IF n = 0 THEN 0 ELSE ConfidenceTotal(n - 1) + verifiedEvents[n].confidence

\* total / n rounded to the nearest integer, a half rounding up
RoundedMean(total, n) == (2 * total + n) \div (2 * n)

\* C17: stats.averageConfidence is the mean of the confidences of the
\* candidates of the batch rounded to the nearest integer, 0 for the empty
\* batch, and between 0 and 100.
C17_AverageConfidence ==
  pc = "done" =>
    /\ stats.averageConfidence =
         IF Len(verifiedEvents) = 0 THEN 0
         ELSE RoundedMean(ConfidenceTotal(Len(verifiedEvents)), Len(verifiedEvents))
    /\ stats.averageConfidence >= 0
    /\ stats.averageConfidence <= 100

\* a result over two candidates whose mean confidence ends in .5 and was
\* rounded up
C17_Witness ==
  /\ pc = "done"
  /\ Len(verifiedEvents) = 2
  /\ (verifiedEvents[1].confidence + verifiedEvents[2].confidence) % 2 = 1
  /\ 2 * stats.averageConfidence
       = verifiedEvents[1].confidence + verifiedEvents[2].confidence + 1

\* the candidates of the batch whose findEvent was called
Lookups ==
  {i \in 1..Len(tasks) : FLt(tasks[i].initialScore, Dec(5, 10)) /\ tasks[i].state # "rejected"}

\* C18: a candidate whose best score s against the list is at least 0.8 is
\* verified with confidence round(100 s) and no discrepancies; one with
\* 0.5 <= s < 0.8 is partial with confidence round(100 s) and the
\* discrepancies against its best match; neither calls findEvent, which is
\* called only for s < 0.5.
C18_ClassificationByListScore ==
  pc \in {"awaitAll", "done", "rejected"} =>
    /\ \A i \in 1..Len(tasks) :
         /\ FGeq(tasks[i].initialScore, Dec(8, 10)) =>
              /\ tasks[i].state = "fulfilled"
              /\ FinalScore(i) = tasks[i].initialScore
              /\ tasks[i].value[1].verificationStatus = "verified"
              /\ tasks[i].value[1].confidence
                   = MathRound(FMul(tasks[i].initialScore, FromInt(100)))
              /\ tasks[i].value[1].discrepancies = <<>>
         /\ (FGeq(tasks[i].initialScore, Dec(5, 10))
              /\ FLt(tasks[i].initialScore, Dec(8, 10))) =>
              /\ tasks[i].state = "fulfilled"
              /\ FinalScore(i) = tasks[i].initialScore
              /\ tasks[i].value[1].verificationStatus = "partial"
              /\ tasks[i].value[1].confidence
                   = MathRound(FMul(tasks[i].initialScore, FromInt(100)))
              /\ tasks[i].value[1].discrepancies
                   = findDiscrepancies(parsedEvents[i], tasks[i].bestMatch[1])
         /\ tasks[i].state = "findEvent" => FLt(tasks[i].initialScore, Dec(5, 10))
    /\ fanouts = 1 + Cardinality(Lookups)

\* a candidate just below 0.8 returned as partial with its discrepancies
\* after a single getAllEvents
C18_Witness ==
  /\ pc = "done"
  /\ fanouts = 1
  /\ Len(tasks) = 1
  /\ FGeq(tasks[1].initialScore, Dec(5, 10))
  /\ FLt(tasks[1].initialScore, Dec(8, 10))
  /\ verifiedEvents[1].verificationStatus = "partial"
  /\ verifiedEvents[1].confidence = 80
  /\ verifiedEvents[1].discrepancies # <<>>

\* candidate i still holds the best match of the list (no direct match has
\* replaced it)
HoldsListMatch(i) ==
  tasks[i].state \in {"findEvent", "rejected"} \/ FGeq(tasks[i].initialScore, Dec(5, 10))

\* the score of candidate i against the k-th real event of the list
ScoreAt(i, k) == calculateMatchScore(parsedEvents[i], realEvents[k])

\* the first position of the list where the score of candidate i is maximal
FirstMaximum(i) ==
  CHOOSE k \in 1..Len(realEvents) :
    /\ \A j \in 1..Len(realEvents) : FLeq(ScoreAt(i, j), ScoreAt(i, k))
    /\ \A j \in 1..(k - 1) : FLt(ScoreAt(i, j), ScoreAt(i, k))

\* C19 as claimed: the best-match search returns the real event of maximal
\* score, the first of them in list order, with that score, and (null, 0)
\* for the empty list.
C19_BestMatchIsFirstMaximum ==
  pc \in {"awaitAll", "done", "rejected"} =>
    \A i \in 1..Len(tasks) :
      HoldsListMatch(i) =>
        IF realEvents = <<>>
        THEN tasks[i].bestMatch = <<>> /\ tasks[i].initialScore = FromInt(0)
        ELSE /\ tasks[i].bestMatch = <<realEvents[FirstMaximum(i)]>>
             /\ tasks[i].initialScore = ScoreAt(i, FirstMaximum(i))

\* C19 as the code has it: the search returns the first real event of maximal
\* score with that score when the maximal score is greater than 0, and
\* (null, 0) when the list is empty or no real event scores above 0.
C19_BestMatchIsFirstPositiveMaximum ==
  pc \in {"awaitAll", "done", "rejected"} =>
    \A i \in 1..Len(tasks) :
      HoldsListMatch(i) =>
        IF realEvents = <<>> \/ \A k \in 1..Len(realEvents) : ScoreAt(i, k) = FromInt(0)
        THEN tasks[i].bestMatch = <<>> /\ tasks[i].initialScore = FromInt(0)
        ELSE /\ tasks[i].bestMatch = <<realEvents[FirstMaximum(i)]>>
             /\ tasks[i].initialScore = ScoreAt(i, FirstMaximum(i))

\* a list of two different real events with the same score above 0, the first
\* of which is the best match
C19_Witness ==
  /\ pc = "awaitAll"
  /\ Len(tasks) = 1
  /\ Len(realEvents) = 2
  /\ realEvents[1] # realEvents[2]
  /\ ScoreAt(1, 1) = ScoreAt(1, 2)
  /\ ScoreAt(1, 1) # FromInt(0)
  /\ tasks[1].bestMatch = <<realEvents[1]>>

\* a sub-score or a score within [0, 1]
InUnitInterval(x) == FLeq(FromInt(0), x) /\ FLeq(x, FromInt(1))

\* one side has no location, or no price, or a price without a number
LocationMissing(parsedEvent, realEvent) ==
  parsedEvent.location = <<>> \/ realEvent.venue = <<>>

PriceMissing(parsedEvent, realEvent) ==
  \/ parsedEvent.price = <<>> \/ realEvent.price = <<>>
  \/ extractPrice(parsedEvent.price) = <<>> \/ extractPrice(realEvent.price) = <<>>

\* C20: for every candidate and every real event of the list, the score is
\* 0.40*name + 0.30*time + 0.20*location + 0.10*price, each sub-score lies in
\* [0, 1], the location and price sub-scores are 0.5 when a side is missing
\* or the price does not parse, and the score lies in [0, 1]; so does the
\* score kept with the best match.
C20_WeightedSumInUnitInterval ==
  /\ \A i \in 1..Len(parsedEvents) : \A k \in 1..Len(realEvents) :
       LET parsedEvent == parsedEvents[i]
           realEvent   == realEvents[k]
           name        == nameScore(parsedEvent, realEvent)
           time        == timeScore(parsedEvent, realEvent)
           location    == locationScore(parsedEvent, realEvent)
           price       == priceScore(parsedEvent, realEvent)
       IN  /\ calculateMatchScore(parsedEvent, realEvent) =
                FAdd(FAdd(FAdd(FMul(Dec(4, 10), name), FMul(Dec(3, 10), time)),
                          FMul(Dec(2, 10), location)),
                     FMul(Dec(1, 10), price))
           /\ InUnitInterval(name) /\ InUnitInterval(time)
           /\ InUnitInterval(location) /\ InUnitInterval(price)
           /\ LocationMissing(parsedEvent, realEvent) => location = Dec(5, 10)
           /\ PriceMissing(parsedEvent, realEvent) => price = Dec(5, 10)
           /\ InUnitInterval(calculateMatchScore(parsedEvent, realEvent))
  /\ pc \in {"awaitAll", "done", "rejected"} =>
       \A i \in 1..Len(tasks) :
         InUnitInterval(tasks[i].initialScore)

\* a candidate without a location and with a price that does not parse has
\* been scored against a real event with a venue and a price, and the event
\* is its best match
C20_Witness ==
  /\ pc = "awaitAll"
  /\ Len(tasks) = 1
  /\ Len(realEvents) >= 1
  /\ parsedEvents[1].location = <<>>
  /\ parsedEvents[1].price # <<>>
  /\ extractPrice(parsedEvents[1].price) = <<>>
  /\ realEvents[1].venue # <<>>
  /\ realEvents[1].price # <<>>
  /\ tasks[1].bestMatch = <<realEvents[1]>>
  /\ tasks[1].initialScore = calculateMatchScore(parsedEvents[1], realEvents[1])
  /\ tasks[1].initialScore # FromInt(0)

\* the positions of the list findEvent got from getAllEvents whose event has a
\* name that contains searchName or is contained in it, case aside
NameMatches(events, searchName) ==
  {k \in 1..Len(events) :
     \/ includes(toLowerCase(events[k].name), searchName)
     \/ includes(searchName, toLowerCase(events[k].name))}

\* the first event of the list at one of the positions, or null
FirstAt(events, positions) ==
  IF positions = {} THEN <<>>
  ELSE <<events[CHOOSE k \in positions : \A j \in positions : k <= j]>>

\* findEvent queried getAllEvents with the name as keyword and the day before
\* and after the start of the candidate
QueriedByNameAndDay ==
  LET parsedEvent == parsedEvents[lookup[1].index]
  IN  /\ lookup[1].options.genre = parsedEvent.summary
      /\ lookup[1].options.location = SearchLocation
      /\ lookup[1].options.startDateTime = parsedEvent.start - 24 * 60
      /\ lookup[1].options.endDateTime = parsedEvent.start + 24 * 60

\* C21 as claimed: findEvent returns the first event of the list getAllEvents
\* returned whose lower-cased name contains the lower-cased search name or is
\* contained in it, null exactly when there is none, and it queries with the
\* name as keyword and the window [date - 24h, date + 24h].
C21_FindEventFirstNameMatch ==
  lookup # <<>> =>
    /\ QueriedByNameAndDay
    /\ lookup[1].result =
         FirstAt(lookup[1].events,
                 NameMatches(lookup[1].events,
                             toLowerCase(parsedEvents[lookup[1].index].summary)))

\* C21 as the code has it: the same, for the lower-cased search name with its
\* leading and trailing white space removed; the event returned becomes the
\* match of the candidate.
C21_FindEventFirstTrimmedNameMatch ==
  lookup # <<>> =>
    /\ QueriedByNameAndDay
    /\ lookup[1].result =
         FirstAt(lookup[1].events,
                 NameMatches(lookup[1].events,
                             trim(toLowerCase(parsedEvents[lookup[1].index].summary))))
    /\ lookup[1].result # <<>> => tasks[lookup[1].index].bestMatch = lookup[1].result

\* findEvent got a list of three different events that all match the name,
\* and returned the first
C21_Witness ==
  /\ lookup # <<>>
  /\ Len(lookup[1].events) = 3
  /\ NameMatches(lookup[1].events,
                 trim(toLowerCase(parsedEvents[lookup[1].index].summary))) = {1, 2, 3}
  /\ lookup[1].events[1].name # lookup[1].events[2].name
  /\ lookup[1].events[2].name # lookup[1].events[3].name
  /\ lookup[1].result = <<lookup[1].events[1]>>
  /\ tasks[lookup[1].index].bestMatch = lookup[1].result

\* the VerifiedEvent of candidate i carries the name, source and URL of its
\* match, the URL of the match only where the candidate had none, and the
\* other fields of the candidate
BuiltFromCandidate(i) ==
  LET parsedEvent   == parsedEvents[i]
      verifiedEvent == tasks[i].value[1]
      bestMatch     == tasks[i].bestMatch
  IN  /\ bestMatch # <<>> =>
           verifiedEvent.matchedSource =
             <<[name |-> bestMatch[1].name, url |-> bestMatch[1].url,
                source |-> bestMatch[1].source]>>
      /\ parsedEvent.url # "" => verifiedEvent.url = parsedEvent.url
      /\ verifiedEvent.url # parsedEvent.url =>
           /\ parsedEvent.url = ""
           /\ bestMatch # <<>>
           /\ verifiedEvent.url = bestMatch[1].url
      /\ (parsedEvent.url = "" /\ bestMatch # <<>> /\ bestMatch[1].url # "") =>
           verifiedEvent.url = bestMatch[1].url
      /\ verifiedEvent.uid = parsedEvent.uid
      /\ verifiedEvent.summary = parsedEvent.summary
      /\ verifiedEvent.start = parsedEvent.start
      /\ verifiedEvent.end = parsedEvent.end
      /\ verifiedEvent.location = parsedEvent.location
      /\ verifiedEvent.description = parsedEvent.description

\* C22: every verifyEvent that returns attaches the name, source and URL of
\* its match as matchedSource, sets the output URL to the match's URL only if
\* the candidate had none and the match has one, copies uid, summary, start,
\* end, location and description unchanged, and no step after the call
\* changes the candidates given.
C22_OutputBuiltFromCandidate ==
  [][/\ pc # "idle" => parsedEvents' = parsedEvents
     /\ \A i \in 1..Len(tasks') :
          tasks'[i].state = "fulfilled" => BuiltFromCandidate(i)']_vars

\* a result with a candidate that kept its URL although its match has
\* another, and a candidate without URL that got the URL of its match
C22_Witness ==
  /\ pc = "done"
  /\ \E i \in 1..Len(tasks) :
       /\ parsedEvents[i].url # ""
       /\ tasks[i].bestMatch # <<>>
       /\ tasks[i].bestMatch[1].url \notin {"", parsedEvents[i].url}
       /\ verifiedEvents[i].url = parsedEvents[i].url
  /\ \E i \in 1..Len(tasks) :
       /\ parsedEvents[i].url = ""
       /\ verifiedEvents[i].url # ""

LowScoring == {i \in 1..Len(tasks) : FLt(tasks[i].initialScore, Dec(5, 10))}

\* C24: in one verifyEvents call getAllEvents runs once for the batch, before
\* any candidate is scored, and findEvent (one more getAllEvents) is called
\* once for each candidate whose best score on the list is below 0.5 and for
\* no other: 1 + the number of low-scoring candidates fan-outs in all.
C24_OneFanoutPerLowScoringCandidate ==
  /\ pc \in {"idle", "getAllEvents", "verify"} => tasks = <<>>
  /\ pc \in {"getAllEvents", "verify"} => fanouts = 1
  /\ pc \in {"awaitAll", "done", "rejected"} =>
       /\ \A i \in 1..Len(tasks) :
            /\ FGeq(tasks[i].initialScore, Dec(5, 10)) => tasks[i].state = "fulfilled"
            /\ i \in LowScoring =>
                 \/ tasks[i].state = "findEvent"
                 \/ Len(SelectSeq(settled, LAMBDA k : k = i)) = 1 /\ tasks[i].state = "fulfilled"
       /\ fanouts = 1 + Cardinality(LowScoring)

\* verifyEvent on one candidate alone: from the candidate, the shared list
\* and the answer of its own findEvent
VerifiedAlone(parsedEvent, directMatch) ==
  VerifyEventResume(VerifyEventStart(parsedEvent, realEvents), parsedEvent, directMatch)

\* C25: the VerifiedEvent of a candidate depends only on the candidate, the
\* shared list and the answer of its own findEvent.  Every verifyEvent starts
\* as it would alone on the shared list; a step changes a verifyEvent only
\* when its own findEvent answers, and then to what it would be alone with
\* that answer, whatever the others did before; and the result list and the
\* stats are those of the candidates verified one after the other.
C25_CandidatesAreIndependent ==
  [][/\ (tasks = <<>> /\ pc = "verify") =>
          tasks' = [i \in 1..Len(parsedEvents) |->
                      VerifyEventStart(parsedEvents[i], realEvents)]
     /\ \A i \in 1..Len(tasks) :
          tasks'[i] # tasks[i] =>
            /\ lookup' # lookup
            /\ lookup'[1].index = i
            /\ tasks'[i] = VerifiedAlone(parsedEvents[i], lookup'[1].result)
     /\ pc' = "done" =>
          /\ verifiedEvents' = [i \in 1..Len(parsedEvents) |-> tasks'[i].value[1]]
          /\ stats' = calculateStats(verifiedEvents')]_vars

\* a result for two candidates that both awaited findEvent, the second
\* answered first, and only one of them got a direct match
C25_Witness ==
  /\ pc = "done"
  /\ Len(tasks) = 2
  /\ settled = <<2, 1>>
  /\ FLt(tasks[1].initialScore, Dec(5, 10))
  /\ FLt(tasks[2].initialScore, Dec(5, 10))
  /\ lookup # <<>>
  /\ lookup[1].index = 1
  /\ lookup[1].result = <<>>
  /\ tasks[2].bestMatch # tasks[1].bestMatch
  /\ verifiedEvents[2].verificationStatus = "partial"
  /\ verifiedEvents[1].verificationStatus = "unverified"

C27_UnparseableStartGivesHalfCredit ==
  \A i \in 1..Len(parsedEvents) : \A k \in 1..Len(realEvents) :
    (parsedEvents[i].start = InvalidDate \/ realEvents[k].startDateTime = InvalidDate) =>
      /\ timeScore(parsedEvents[i], realEvents[k]) = Dec(5, 10)
      /\ calculateMatchScore(parsedEvents[i], realEvents[k]) =
           FAdd(FAdd(FAdd(FMul(Dec(4, 10), nameScore(parsedEvents[i], realEvents[k])),
                          FMul(Dec(3, 10), Dec(5, 10))),
                     FMul(Dec(2, 10), locationScore(parsedEvents[i], realEvents[k]))),
                FMul(Dec(1, 10), priceScore(parsedEvents[i], realEvents[k])))

\* C28: the fallback never lowers the confidence of a candidate and never
\* replaces its match by a worse one: once verifyEvent has returned, the
\* confidence is at least Math.round(100 * the best score of the list) and
\* the match kept scores at least as much as the best match of the list.
C28_FallbackNeverLowers ==
  \A i \in 1..Len(tasks) :
    tasks[i].state = "fulfilled" =>
      /\ tasks[i].value[1].confidence >= Confidence(tasks[i].initialScore)
      /\ FGeq(tasks[i].bestScore, tasks[i].initialScore)
      /\ tasks[i].bestMatch # <<>> =>
           FGeq(calculateMatchScore(parsedEvents[i], tasks[i].bestMatch[1]),
                tasks[i].initialScore)

\* no real event of the list scores above 0 against candidate i
NoneScoresAboveZero(i) ==
  \A k \in 1..Len(realEvents) :
    ~FLt(FromInt(0), calculateMatchScore(parsedEvents[i], realEvents[k]))

\* the findEvent of candidate i returned null
FoundNothing(i) == lookup # <<>> /\ lookup[1].index = i /\ lookup[1].result = <<>>

\* C29: in every VerifiedEvent returned, verified or partial implies that
\* matchedSource is present, and matchedSource is absent exactly when no real
\* event of the list scored above 0 and findEvent returned null.
C29_MatchedSourcePresence ==
  pc = "done" =>
    \A i \in 1..Len(verifiedEvents) :
      /\ verifiedEvents[i].verificationStatus \in {"verified", "partial"} =>
           verifiedEvents[i].matchedSource # <<>>
      /\ verifiedEvents[i].matchedSource = <<>> <=>
           (NoneScoresAboveZero(i) /\ FoundNothing(i))

\* an unverified event returned with a matchedSource: an event of the list
\* scored above 0 and below 0.5, and findEvent returned null
C29_Witness ==
  /\ pc = "done"
  /\ Len(verifiedEvents) = 1
  /\ FoundNothing(1)
  /\ ~NoneScoresAboveZero(1)
  /\ verifiedEvents[1].verificationStatus = "unverified"
  /\ verifiedEvents[1].matchedSource # <<>>

\* C30 as claimed: the best match of a candidate on the list is null only
\* for the empty list, also when every real event scores exactly 0.
C30_NullBestMatchOnlyForEmptyList ==
  pc \in {"awaitAll", "done", "rejected"} =>
    \A i \in 1..Len(tasks) :
      HoldsListMatch(i) => (tasks[i].bestMatch = <<>> <=> realEvents = <<>>)

\* C30 as the code has it: the best match of a candidate on the list is null
\* exactly when no real event of the list scores above 0, that is for the
\* empty list and for a list whose events all score exactly 0.
C30_NullBestMatchWithoutPositiveScore ==
  pc \in {"awaitAll", "done", "rejected"} =>
    \A i \in 1..Len(tasks) :
      HoldsListMatch(i) => (tasks[i].bestMatch = <<>> <=> NoneScoresAboveZero(i))

\* the list holds real events, none of which scores above 0, and the best
\* match is null
C30_Witness ==
  /\ pc = "awaitAll"
  /\ Len(tasks) = 1
  /\ Len(realEvents) = 2
  /\ NoneScoresAboveZero(1)
  /\ tasks[1].state = "findEvent"
  /\ tasks[1].bestMatch = <<>>
  /\ tasks[1].initialScore = FromInt(0)

====
